---- MODULE Spec2Model ----
(***************************************************************************)
(* Model of services/or_tools_vrp_solver.py: the request-to-model compiler *)
(* (create_data_model), the registrations solve_cvrptw makes against the   *)
(* routing engine (arc cost, dimensions, pinning constraints,              *)
(* disjunctions, time limit), the engine call as a nondeterministic choice *)
(* among the assignments the registrations admit (or no assignment), the   *)
(* decoder, and the __main__ block's stdout / stderr / exit status.        *)
(*                                                                         *)
(* Conventions.  A JSON value that may be absent or null is a sequence of  *)
(* length 0 or 1 (<<>> is None).  A JSON number is an integer count of     *)
(* halves (h stands for h/2), so that round() has something to round.      *)
(* Python lists are sequences; node n of a matrix or vector is element     *)
(* n + 1.                                                                  *)
(***************************************************************************)
EXTENDS Integers, Sequences, FiniteSets, TLC

\* ------------------------------------------------------------------ bounds
MaxN == 3
MaxV == 2
MaxWeightH == 3

\* ------------------------------------------------------- program constants
large_penalty_int == 999999999
default_drop_visit_penalty == 5000000
vehicle_id_for_reopt == 0
reopt_time_limit == 10

\* ------------------------------------------------------------ JSON values
None == <<>>
Some(x) == <<x>>
IsNone(o) == Len(o) = 0
Val(o) == o[1]

Num(h) == [k |-> "num", h |-> h]
NullEntry == [k |-> "null", h |-> 0]
StrEntry == [k |-> "str", h |-> 0]

\* Python 3 round() on h/2: to nearest, ties to the even integer.
PyRound(h) ==
    LET fl == h \div 2
    IN  IF h % 2 = 0 THEN fl
        ELSE IF fl % 2 = 0 THEN fl ELSE fl + 1

\* str.upper().  A string of the request is given by the code points of its
\* characters, so that upper() can act character by character and give the
\* capital of any code point.  The two tables are the upper-case mapping of
\* the Unicode database of Python 3.11 (Unicode 14.0) over every code point:
\* UpperRuns holds <<first, last, step, shift>> for the characters whose
\* capital is one character (every step-th code point from first to last
\* moves by shift), UpperSpecials the characters whose capital is several
\* (the sharp s, the ligatures).  Any other character is its own capital.
UpperRuns ==
  <<
     <<97, 122, 1, -32>>, <<181, 181, 1, 743>>, <<224, 246, 1, -32>>,
     <<248, 254, 1, -32>>, <<255, 255, 1, 121>>, <<257, 303, 2, -1>>,
     <<305, 305, 1, -232>>, <<307, 311, 2, -1>>, <<314, 328, 2, -1>>,
     <<331, 375, 2, -1>>, <<378, 382, 2, -1>>, <<383, 383, 1, -300>>,
     <<384, 384, 1, 195>>, <<387, 389, 2, -1>>, <<392, 392, 1, -1>>,
     <<396, 396, 1, -1>>, <<402, 402, 1, -1>>, <<405, 405, 1, 97>>,
     <<409, 409, 1, -1>>, <<410, 410, 1, 163>>, <<414, 414, 1, 130>>,
     <<417, 421, 2, -1>>, <<424, 424, 1, -1>>, <<429, 429, 1, -1>>,
     <<432, 432, 1, -1>>, <<436, 438, 2, -1>>, <<441, 441, 1, -1>>,
     <<445, 445, 1, -1>>, <<447, 447, 1, 56>>, <<453, 453, 1, -1>>,
     <<454, 454, 1, -2>>, <<456, 456, 1, -1>>, <<457, 457, 1, -2>>,
     <<459, 459, 1, -1>>, <<460, 460, 1, -2>>, <<462, 476, 2, -1>>,
     <<477, 477, 1, -79>>, <<479, 495, 2, -1>>, <<498, 498, 1, -1>>,
     <<499, 499, 1, -2>>, <<501, 501, 1, -1>>, <<505, 543, 2, -1>>,
     <<547, 563, 2, -1>>, <<572, 572, 1, -1>>, <<575, 576, 1, 10815>>,
     <<578, 578, 1, -1>>, <<583, 591, 2, -1>>, <<592, 592, 1, 10783>>,
     <<593, 593, 1, 10780>>, <<594, 594, 1, 10782>>, <<595, 595, 1, -210>>,
     <<596, 596, 1, -206>>, <<598, 599, 1, -205>>, <<601, 601, 1, -202>>,
     <<603, 603, 1, -203>>, <<604, 604, 1, 42319>>, <<608, 608, 1, -205>>,
     <<609, 609, 1, 42315>>, <<611, 611, 1, -207>>, <<613, 613, 1, 42280>>,
     <<614, 614, 1, 42308>>, <<616, 616, 1, -209>>, <<617, 617, 1, -211>>,
     <<618, 618, 1, 42308>>, <<619, 619, 1, 10743>>, <<620, 620, 1, 42305>>,
     <<623, 623, 1, -211>>, <<625, 625, 1, 10749>>, <<626, 626, 1, -213>>,
     <<629, 629, 1, -214>>, <<637, 637, 1, 10727>>, <<640, 640, 1, -218>>,
     <<642, 642, 1, 42307>>, <<643, 643, 1, -218>>, <<647, 647, 1, 42282>>,
     <<648, 648, 1, -218>>, <<649, 649, 1, -69>>, <<650, 651, 1, -217>>,
     <<652, 652, 1, -71>>, <<658, 658, 1, -219>>, <<669, 669, 1, 42261>>,
     <<670, 670, 1, 42258>>, <<837, 837, 1, 84>>, <<881, 883, 2, -1>>,
     <<887, 887, 1, -1>>, <<891, 893, 1, 130>>, <<940, 940, 1, -38>>,
     <<941, 943, 1, -37>>, <<945, 961, 1, -32>>, <<962, 962, 1, -31>>,
     <<963, 971, 1, -32>>, <<972, 972, 1, -64>>, <<973, 974, 1, -63>>,
     <<976, 976, 1, -62>>, <<977, 977, 1, -57>>, <<981, 981, 1, -47>>,
     <<982, 982, 1, -54>>, <<983, 983, 1, -8>>, <<985, 1007, 2, -1>>,
     <<1008, 1008, 1, -86>>, <<1009, 1009, 1, -80>>, <<1010, 1010, 1, 7>>,
     <<1011, 1011, 1, -116>>, <<1013, 1013, 1, -96>>, <<1016, 1016, 1, -1>>,
     <<1019, 1019, 1, -1>>, <<1072, 1103, 1, -32>>, <<1104, 1119, 1, -80>>,
     <<1121, 1153, 2, -1>>, <<1163, 1215, 2, -1>>, <<1218, 1230, 2, -1>>,
     <<1231, 1231, 1, -15>>, <<1233, 1327, 2, -1>>, <<1377, 1414, 1, -48>>,
     <<4304, 4346, 1, 3008>>, <<4349, 4351, 1, 3008>>, <<5112, 5117, 1, -8>>,
     <<7296, 7296, 1, -6254>>, <<7297, 7297, 1, -6253>>,
     <<7298, 7298, 1, -6244>>, <<7299, 7300, 1, -6242>>,
     <<7301, 7301, 1, -6243>>, <<7302, 7302, 1, -6236>>,
     <<7303, 7303, 1, -6181>>, <<7304, 7304, 1, 35266>>,
     <<7545, 7545, 1, 35332>>, <<7549, 7549, 1, 3814>>,
     <<7566, 7566, 1, 35384>>, <<7681, 7829, 2, -1>>, <<7835, 7835, 1, -59>>,
     <<7841, 7935, 2, -1>>, <<7936, 7943, 1, 8>>, <<7952, 7957, 1, 8>>,
     <<7968, 7975, 1, 8>>, <<7984, 7991, 1, 8>>, <<8000, 8005, 1, 8>>,
     <<8017, 8023, 2, 8>>, <<8032, 8039, 1, 8>>, <<8048, 8049, 1, 74>>,
     <<8050, 8053, 1, 86>>, <<8054, 8055, 1, 100>>, <<8056, 8057, 1, 128>>,
     <<8058, 8059, 1, 112>>, <<8060, 8061, 1, 126>>, <<8112, 8113, 1, 8>>,
     <<8126, 8126, 1, -7205>>, <<8144, 8145, 1, 8>>, <<8160, 8161, 1, 8>>,
     <<8165, 8165, 1, 7>>, <<8526, 8526, 1, -28>>, <<8560, 8575, 1, -16>>,
     <<8580, 8580, 1, -1>>, <<9424, 9449, 1, -26>>, <<11312, 11359, 1, -48>>,
     <<11361, 11361, 1, -1>>, <<11365, 11365, 1, -10795>>,
     <<11366, 11366, 1, -10792>>, <<11368, 11372, 2, -1>>,
     <<11379, 11379, 1, -1>>, <<11382, 11382, 1, -1>>,
     <<11393, 11491, 2, -1>>, <<11500, 11502, 2, -1>>,
     <<11507, 11507, 1, -1>>, <<11520, 11557, 1, -7264>>,
     <<11559, 11559, 1, -7264>>, <<11565, 11565, 1, -7264>>,
     <<42561, 42605, 2, -1>>, <<42625, 42651, 2, -1>>,
     <<42787, 42799, 2, -1>>, <<42803, 42863, 2, -1>>,
     <<42874, 42876, 2, -1>>, <<42879, 42887, 2, -1>>,
     <<42892, 42892, 1, -1>>, <<42897, 42899, 2, -1>>,
     <<42900, 42900, 1, 48>>, <<42903, 42921, 2, -1>>,
     <<42933, 42947, 2, -1>>, <<42952, 42954, 2, -1>>,
     <<42961, 42961, 1, -1>>, <<42967, 42969, 2, -1>>,
     <<42998, 42998, 1, -1>>, <<43859, 43859, 1, -928>>,
     <<43888, 43967, 1, -38864>>, <<65345, 65370, 1, -32>>,
     <<66600, 66639, 1, -40>>, <<66776, 66811, 1, -40>>,
     <<66967, 67003, 2, -39>>, <<66968, 66976, 2, -39>>,
     <<66980, 66992, 2, -39>>, <<66996, 67000, 2, -39>>,
     <<67004, 67004, 1, -39>>, <<68800, 68850, 1, -64>>,
     <<71872, 71903, 1, -32>>, <<93792, 93823, 1, -32>>,
     <<125218, 125251, 1, -34>>
  >>

UpperSpecials ==
  <<
     <<223, <<83, 83>>>>, <<329, <<700, 78>>>>, <<496, <<74, 780>>>>,
     <<912, <<921, 776, 769>>>>, <<944, <<933, 776, 769>>>>,
     <<1415, <<1333, 1362>>>>, <<7830, <<72, 817>>>>, <<7831, <<84, 776>>>>,
     <<7832, <<87, 778>>>>, <<7833, <<89, 778>>>>, <<7834, <<65, 702>>>>,
     <<8016, <<933, 787>>>>, <<8018, <<933, 787, 768>>>>,
     <<8020, <<933, 787, 769>>>>, <<8022, <<933, 787, 834>>>>,
     <<8064, <<7944, 921>>>>, <<8065, <<7945, 921>>>>,
     <<8066, <<7946, 921>>>>, <<8067, <<7947, 921>>>>,
     <<8068, <<7948, 921>>>>, <<8069, <<7949, 921>>>>,
     <<8070, <<7950, 921>>>>, <<8071, <<7951, 921>>>>,
     <<8072, <<7944, 921>>>>, <<8073, <<7945, 921>>>>,
     <<8074, <<7946, 921>>>>, <<8075, <<7947, 921>>>>,
     <<8076, <<7948, 921>>>>, <<8077, <<7949, 921>>>>,
     <<8078, <<7950, 921>>>>, <<8079, <<7951, 921>>>>,
     <<8080, <<7976, 921>>>>, <<8081, <<7977, 921>>>>,
     <<8082, <<7978, 921>>>>, <<8083, <<7979, 921>>>>,
     <<8084, <<7980, 921>>>>, <<8085, <<7981, 921>>>>,
     <<8086, <<7982, 921>>>>, <<8087, <<7983, 921>>>>,
     <<8088, <<7976, 921>>>>, <<8089, <<7977, 921>>>>,
     <<8090, <<7978, 921>>>>, <<8091, <<7979, 921>>>>,
     <<8092, <<7980, 921>>>>, <<8093, <<7981, 921>>>>,
     <<8094, <<7982, 921>>>>, <<8095, <<7983, 921>>>>,
     <<8096, <<8040, 921>>>>, <<8097, <<8041, 921>>>>,
     <<8098, <<8042, 921>>>>, <<8099, <<8043, 921>>>>,
     <<8100, <<8044, 921>>>>, <<8101, <<8045, 921>>>>,
     <<8102, <<8046, 921>>>>, <<8103, <<8047, 921>>>>,
     <<8104, <<8040, 921>>>>, <<8105, <<8041, 921>>>>,
     <<8106, <<8042, 921>>>>, <<8107, <<8043, 921>>>>,
     <<8108, <<8044, 921>>>>, <<8109, <<8045, 921>>>>,
     <<8110, <<8046, 921>>>>, <<8111, <<8047, 921>>>>,
     <<8114, <<8122, 921>>>>, <<8115, <<913, 921>>>>, <<8116, <<902, 921>>>>,
     <<8118, <<913, 834>>>>, <<8119, <<913, 834, 921>>>>,
     <<8124, <<913, 921>>>>, <<8130, <<8138, 921>>>>, <<8131, <<919, 921>>>>,
     <<8132, <<905, 921>>>>, <<8134, <<919, 834>>>>,
     <<8135, <<919, 834, 921>>>>, <<8140, <<919, 921>>>>,
     <<8146, <<921, 776, 768>>>>, <<8147, <<921, 776, 769>>>>,
     <<8150, <<921, 834>>>>, <<8151, <<921, 776, 834>>>>,
     <<8162, <<933, 776, 768>>>>, <<8163, <<933, 776, 769>>>>,
     <<8164, <<929, 787>>>>, <<8166, <<933, 834>>>>,
     <<8167, <<933, 776, 834>>>>, <<8178, <<8186, 921>>>>,
     <<8179, <<937, 921>>>>, <<8180, <<911, 921>>>>, <<8182, <<937, 834>>>>,
     <<8183, <<937, 834, 921>>>>, <<8188, <<937, 921>>>>,
     <<64256, <<70, 70>>>>, <<64257, <<70, 73>>>>, <<64258, <<70, 76>>>>,
     <<64259, <<70, 70, 73>>>>, <<64260, <<70, 70, 76>>>>,
     <<64261, <<83, 84>>>>, <<64262, <<83, 84>>>>, <<64275, <<1348, 1350>>>>,
     <<64276, <<1348, 1333>>>>, <<64277, <<1348, 1339>>>>,
     <<64278, <<1358, 1350>>>>, <<64279, <<1348, 1341>>>>
  >>

UpperChar(c) ==
    IF \E i \in 1..Len(UpperSpecials) : UpperSpecials[i][1] = c
    THEN UpperSpecials[CHOOSE i \in 1..Len(UpperSpecials) : UpperSpecials[i][1] = c][2]
    ELSE IF \E i \in 1..Len(UpperRuns) :
                /\ UpperRuns[i][1] <= c /\ c <= UpperRuns[i][2]
                /\ (c - UpperRuns[i][1]) % UpperRuns[i][3] = 0
    THEN <<c + UpperRuns[CHOOSE i \in 1..Len(UpperRuns) :
                            /\ UpperRuns[i][1] <= c /\ c <= UpperRuns[i][2]
                            /\ (c - UpperRuns[i][1]) % UpperRuns[i][3] = 0][4]>>
    ELSE <<c>>

RECURSIVE Upper(_)
Upper(s) == IF Len(s) = 0 THEN <<>> ELSE UpperChar(Head(s)) \o Upper(Tail(s))

\* The two trip types the cost callback knows, as code points.
PICKUP == <<80, 73, 67, 75, 85, 80>>
DROPOFF == <<68, 82, 79, 80, 79, 70, 70>>

RECURSIVE SeqSum(_)
SeqSum(s) == IF Len(s) = 0 THEN 0 ELSE Head(s) + SeqSum(Tail(s))

Range(s) == {s[i] : i \in 1..Len(s)}

\* The message of an exception is given in pieces, a tuple of strings in which
\* every apostrophe, double quote, backslash, newline, carriage return and tab
\* is a piece of its own.  Text is str() of the message.
RECURSIVE Text(_)
Text(pieces) == IF Len(pieces) = 0 THEN "" ELSE Head(pieces) \o Text(Tail(pieces))

\* repr() of a string: quoted with apostrophes, or with double quotes when it
\* holds an apostrophe and no double quote; the backslash, the quote in use
\* and the three control characters are escaped.
ReprQuote(pieces) ==
    IF "'" \in Range(pieces) /\ "\"" \notin Range(pieces) THEN "\"" ELSE "'"

ReprPiece(p, quote) ==
    CASE p = "\\" -> "\\\\"
      [] p = quote -> "\\" \o quote
      [] p = "\n" -> "\\n"
      [] p = "\r" -> "\\r"
      [] p = "\t" -> "\\t"
      [] OTHER -> p

RECURSIVE ReprBody(_, _)
ReprBody(pieces, quote) ==
    IF Len(pieces) = 0 THEN ""
    ELSE ReprPiece(Head(pieces), quote) \o ReprBody(Tail(pieces), quote)

\* repr() of an exception whose one argument is the message.
PyRepr(type, msg) ==
    type \o "(" \o ReprQuote(msg) \o ReprBody(msg, ReprQuote(msg)) \o ReprQuote(msg) \o ")"

\* ------------------------------------------------------- create_data_model
\* One matrix row list -> integers; None -> large_penalty_int.
NormEntry(e) == IF e.k = "null" THEN large_penalty_int ELSE PyRound(e.h)
NormMatrix(m) == [i \in 1..Len(m) |-> [j \in 1..Len(m[i]) |-> NormEntry(m[i][j])]]
HasStr(m) == \E i \in 1..Len(m) : \E j \in 1..Len(m[i]) : m[i][j].k = "str"

RawDuration(req) ==
    IF IsNone(req.duration_matrix) THEN req.distance_matrix ELSE Val(req.duration_matrix)

ServiceTimes(req) ==
    IF IsNone(req.service_times) THEN [i \in 1..Len(req.demands) |-> 0]
    ELSE [i \in 1..Len(Val(req.service_times)) |-> PyRound(Val(req.service_times)[i])]

DataOf(req) ==
    [distance_matrix |-> NormMatrix(req.distance_matrix),
     duration_matrix |-> NormMatrix(RawDuration(req)),
     demands |-> req.demands,
     vehicle_capacities |-> req.vehicle_capacities,
     num_vehicles |-> req.num_vehicles,
     depot |-> IF IsNone(req.depot_index) THEN 0 ELSE Val(req.depot_index),
     max_route_duration |-> IF IsNone(req.max_route_duration) THEN None
                            ELSE Some(PyRound(Val(req.max_route_duration))),
     service_times |-> ServiceTimes(req),
     allow_dropping_visits |-> req.allow_dropping_visits,
     drop_visit_penalty |-> IF IsNone(req.drop_visit_penalty)
                            THEN default_drop_visit_penalty
                            ELSE Val(req.drop_visit_penalty),
     trip_type |-> Upper(req.trip_type),
     direction_penalty_weight |-> req.direction_penalty_weight,
     fixed_start_node_index_in_matrix |-> req.fixed_start_node_index_in_matrix,
     fixed_end_node_index_in_matrix |-> req.fixed_end_node_index_in_matrix,
     other_customer_node_indices_in_matrix |-> req.other_customer_node_indices_in_matrix]

InRange(idx, n) == 0 <= idx /\ idx < n

\* The check of one optional index against [0, num_locations).
BadIndex(o, n) == ~IsNone(o) /\ ~InRange(Val(o), n)

BadOthers(d, n) ==
    /\ ~IsNone(d.fixed_end_node_index_in_matrix)
    /\ ~IsNone(d.other_customer_node_indices_in_matrix)
    /\ \E i \in 1..Len(Val(d.other_customer_node_indices_in_matrix)) :
          ~InRange(Val(d.other_customer_node_indices_in_matrix)[i], n)

\* The message of the TypeError that round() raises on a string.
RoundOfStrMessage == <<"type str doesn", "'", "t define __round__ method">>

\* The exception create_data_model raises, in the order of its statements,
\* or "ok" when it returns the data model.
ValidationError(req) ==
    LET d == DataOf(req)
        n == Len(req.distance_matrix)
    IN  CASE HasStr(req.distance_matrix) -> Text(RoundOfStrMessage)
          [] HasStr(RawDuration(req)) -> Text(RoundOfStrMessage)
          [] n > 0 /\ \E i \in 1..n : Len(d.distance_matrix[i]) # n ->
                "Distance matrix is not square."
          [] n > 0 /\ Len(d.demands) # n -> "Demands length mismatch."
          [] n > 0 /\ Len(d.service_times) # n -> "Service times length mismatch."
          [] d.num_vehicles > 0 /\ Len(d.vehicle_capacities) # d.num_vehicles ->
                "Vehicle capacities length mismatch with num_vehicles."
          [] BadIndex(d.fixed_start_node_index_in_matrix, n) ->
                "Invalid fixed_start_node_index_in_matrix"
          [] BadIndex(d.fixed_end_node_index_in_matrix, n) ->
                "Invalid fixed_end_node_index_in_matrix"
          [] BadOthers(d, n) ->
                "Invalid index in other_customer_node_indices_in_matrix"
          [] OTHER -> "ok"

\* The class of that exception: round() of a string is a TypeError, every
\* raise statement of create_data_model a ValueError.
ValidationErrorType(req) ==
    IF HasStr(req.distance_matrix) \/ HasStr(RawDuration(req)) THEN "TypeError"
    ELSE "ValueError"

\* Its message: each raise statement of create_data_model gives a literal
\* without quotes or backslashes, one piece.
ValidationErrorArgs(req) ==
    IF ValidationErrorType(req) = "TypeError" THEN RoundOfStrMessage
    ELSE <<ValidationError(req)>>

\* ------------------------------------------------- RoutingIndexManager view
\* RoutingIndexManager(num_locations, num_vehicles, depot) with one depot for
\* all vehicles: node n keeps index n, vehicle 0 starts at the depot's index,
\* vehicle v > 0 starts at num_locations + v - 1, and the vehicles' ends follow.
NumLocations(d) == Len(d.distance_matrix)
NodeToIndex(d, n) == n
IndexToNode(d, idx) == IF idx < NumLocations(d) THEN idx ELSE d.depot
StartIndex(d, v) == IF v = 0 THEN d.depot ELSE NumLocations(d) + v - 1
EndIndex(d, v) == NumLocations(d) + d.num_vehicles - 1 + v
IsEnd(d, idx) == idx >= NumLocations(d) + d.num_vehicles - 1
depot_manager_idx(d) == NodeToIndex(d, d.depot)
Vehicles(d) == 0..(d.num_vehicles - 1)
Nodes(d) == 0..(NumLocations(d) - 1)
Customers(d) == Nodes(d) \ {d.depot}

\* ------------------------------------------------------------ the arc cost
\* distance_with_direction_penalty_callback, in halves until the final round:
\* travel_distance + weight * delta with weight = wh / 2.
\* Mutant of ArcPenaltyH: the penalty is subtracted instead of added.
ArcPenaltyNegated(d, from_node, to_node) ==
    LET wh == d.direction_penalty_weight
        dist_from_to_depot == d.distance_matrix[from_node + 1][d.depot + 1]
        dist_to_to_depot == d.distance_matrix[to_node + 1][d.depot + 1]
    IN  IF from_node # d.depot /\ to_node # d.depot /\ wh > 0
        THEN IF d.trip_type = PICKUP
             THEN IF dist_to_to_depot - dist_from_to_depot > 0
                  THEN wh * (dist_from_to_depot - dist_to_to_depot) ELSE 0
             ELSE IF d.trip_type = DROPOFF
                  THEN IF dist_from_to_depot - dist_to_to_depot > 0
                       THEN wh * (dist_to_to_depot - dist_from_to_depot) ELSE 0
                  ELSE 0
        ELSE 0

\* Mutant of ArcPenaltyH: arcs that leave or enter the depot are penalized
\* like any other.
ArcPenaltyAtDepotToo(d, from_node, to_node) ==
    LET wh == d.direction_penalty_weight
        dist_from_to_depot == d.distance_matrix[from_node + 1][d.depot + 1]
        dist_to_to_depot == d.distance_matrix[to_node + 1][d.depot + 1]
    IN  IF wh > 0
        THEN IF d.trip_type = PICKUP
             THEN IF dist_to_to_depot - dist_from_to_depot > 0
                  THEN wh * (dist_to_to_depot - dist_from_to_depot) ELSE 0
             ELSE IF d.trip_type = DROPOFF
                  THEN IF dist_from_to_depot - dist_to_to_depot > 0
                       THEN wh * (dist_from_to_depot - dist_to_to_depot) ELSE 0
                  ELSE 0
        ELSE 0

ArcPenaltyH(d, from_node, to_node) ==
    LET wh == d.direction_penalty_weight
        dist_from_to_depot == d.distance_matrix[from_node + 1][d.depot + 1]
        dist_to_to_depot == d.distance_matrix[to_node + 1][d.depot + 1]
    IN  IF from_node # d.depot /\ to_node # d.depot /\ wh > 0
        THEN IF d.trip_type = PICKUP
             THEN IF dist_to_to_depot - dist_from_to_depot > 0
                  THEN wh * (dist_to_to_depot - dist_from_to_depot) ELSE 0
             ELSE IF d.trip_type = DROPOFF
                  THEN IF dist_from_to_depot - dist_to_to_depot > 0
                       THEN wh * (dist_from_to_depot - dist_to_to_depot) ELSE 0
                  ELSE 0
        ELSE 0

ArcCost(d, from_index, to_index) ==
    LET from_node == IndexToNode(d, from_index)
        to_node == IndexToNode(d, to_index)
    IN  IF ~(InRange(from_node, NumLocations(d)) /\ InRange(to_node, NumLocations(d)))
        THEN large_penalty_int
        ELSE PyRound(2 * d.distance_matrix[from_node + 1][to_node + 1]
                     + ArcPenaltyH(d, from_node, to_node))

\* ------------------------------------------------- the pinning constraints
NextEq(a, b) == [t |-> "NextEq", a |-> a, b |-> b]
NextNe(a, b) == [t |-> "NextNe", a |-> a, b |-> b]
VehEq(a, v) == [t |-> "VehEq", a |-> a, b |-> v]

OtherCustomers(d) ==
    IF IsNone(d.other_customer_node_indices_in_matrix) THEN <<>>
    ELSE Val(d.other_customer_node_indices_in_matrix)

\* Mutant of FixedStartConstraints: the successor constraint on the depot is
\* missing, only the vehicle constraints are registered.
FixedStartWithoutNext(d) ==
    LET s == Val(d.fixed_start_node_index_in_matrix)
    IN  IF ~InRange(s, NumLocations(d)) THEN {}
        ELSE {VehEq(NodeToIndex(d, s), vehicle_id_for_reopt),
              VehEq(depot_manager_idx(d), vehicle_id_for_reopt)}

FixedStartConstraints(d) ==
    LET s == Val(d.fixed_start_node_index_in_matrix)
    IN  IF ~InRange(s, NumLocations(d)) THEN {}
        ELSE {NextEq(depot_manager_idx(d), NodeToIndex(d, s)),
              VehEq(NodeToIndex(d, s), vehicle_id_for_reopt),
              VehEq(depot_manager_idx(d), vehicle_id_for_reopt)}

\* Mutant of FixedEndConstraints: the successor constraint on the fixed end
\* is missing, the other constraints are registered as they are.
FixedEndWithoutNext(d) ==
    LET e == Val(d.fixed_end_node_index_in_matrix)
        oth == OtherCustomers(d)
        pinned == {oth[i] : i \in {j \in 1..Len(oth) :
                        InRange(oth[j], NumLocations(d)) /\ oth[j] # e}}
    IN  IF ~InRange(e, NumLocations(d)) THEN {}
        ELSE {VehEq(NodeToIndex(d, e), vehicle_id_for_reopt),
              VehEq(depot_manager_idx(d), vehicle_id_for_reopt)}
             \cup {NextNe(NodeToIndex(d, o), depot_manager_idx(d)) : o \in pinned}
             \cup {VehEq(NodeToIndex(d, o), vehicle_id_for_reopt) : o \in pinned}

FixedEndConstraints(d) ==
    LET e == Val(d.fixed_end_node_index_in_matrix)
        oth == OtherCustomers(d)
        pinned == {oth[i] : i \in {j \in 1..Len(oth) :
                        InRange(oth[j], NumLocations(d)) /\ oth[j] # e}}
    IN  IF ~InRange(e, NumLocations(d)) THEN {}
        ELSE {NextEq(NodeToIndex(d, e), depot_manager_idx(d)),
              VehEq(NodeToIndex(d, e), vehicle_id_for_reopt),
              VehEq(depot_manager_idx(d), vehicle_id_for_reopt)}
             \cup {NextNe(NodeToIndex(d, o), depot_manager_idx(d)) : o \in pinned}
             \cup {VehEq(NodeToIndex(d, o), vehicle_id_for_reopt) : o \in pinned}

PinConstraints(d) ==
    IF ~IsNone(d.fixed_start_node_index_in_matrix) THEN FixedStartConstraints(d)
    ELSE IF ~IsNone(d.fixed_end_node_index_in_matrix) THEN FixedEndConstraints(d)
    ELSE {}

\* ------------------------------------------------------- the disjunctions
is_fixed_node(d, n) ==
    \/ ~IsNone(d.fixed_start_node_index_in_matrix)
          /\ n = Val(d.fixed_start_node_index_in_matrix)
    \/ ~IsNone(d.fixed_end_node_index_in_matrix)
          /\ n = Val(d.fixed_end_node_index_in_matrix)

is_other_fixed_customer(d, n) ==
    /\ ~IsNone(d.fixed_end_node_index_in_matrix)
    /\ n \in Range(OtherCustomers(d))

\* Mutant of DropPenalty: every node is registered with the drop penalty.
DropPenaltyFlat(d, n) == d.drop_visit_penalty

DropPenalty(d, n) ==
    IF is_fixed_node(d, n) \/ is_other_fixed_customer(d, n) THEN 0
    ELSE d.drop_visit_penalty

RECURSIVE DisjunctionsFrom(_, _)
DisjunctionsFrom(d, n) ==
    IF n >= NumLocations(d) THEN <<>>
    ELSE IF n = d.depot THEN DisjunctionsFrom(d, n + 1)
    ELSE <<[index |-> NodeToIndex(d, n), penalty |-> DropPenalty(d, n)]>>
         \o DisjunctionsFrom(d, n + 1)

Disjunctions(d) ==
    IF d.allow_dropping_visits THEN DisjunctionsFrom(d, 0) ELSE <<>>

\* ------------------------------------------------------ the time limit
SizeTimeLimit(n) ==
    IF n <= 5 THEN 5
    ELSE IF n <= 10 THEN 15
    ELSE IF n <= 15 THEN 30
    ELSE IF n <= 20 THEN 45
    ELSE IF n <= 25 THEN 60
    ELSE IF n <= 30 THEN 90
    ELSE 120

Min(a, b) == IF a < b THEN a ELSE b

\* Mutant of TimeLimit: the re-optimization ceiling is not applied.
TimeLimitUnclamped(d) == SizeTimeLimit(NumLocations(d))

TimeLimit(d) ==
    IF ~IsNone(d.fixed_start_node_index_in_matrix)
          \/ ~IsNone(d.fixed_end_node_index_in_matrix)
    THEN Min(SizeTimeLimit(NumLocations(d)), reopt_time_limit)
    ELSE SizeTimeLimit(NumLocations(d))

\* ---------------------------------------------------- the engine's answers
\* An assignment gives each vehicle the customers it serves, in order; a
\* customer in no vehicle's list is inactive.  NextVar and VehicleVar are the
\* engine's variables read off such an assignment: an inactive node is its own
\* successor and has vehicle -1, and the successor of a route's last customer
\* is that vehicle's end index, never a start index.
RECURSIVE Arrangements(_)
Arrangements(S) ==
    {<<>>} \cup UNION {{<<x>> \o t : t \in Arrangements(S \ {x})} : x \in S}

RECURSIVE AssignVehicles(_, _)
AssignVehicles(k, S) ==
    IF k = 0 THEN {<<>>}
    ELSE UNION {{<<r>> \o rest : rest \in AssignVehicles(k - 1, S \ Range(r))}
                    : r \in Arrangements(S)}

AllAssignments(d) == AssignVehicles(d.num_vehicles, Customers(d))

NextVar(d, a, idx) ==
    IF \E v \in Vehicles(d) : idx = StartIndex(d, v)
    THEN LET v == CHOOSE w \in Vehicles(d) : idx = StartIndex(d, w)
         IN  IF Len(a[v + 1]) = 0 THEN EndIndex(d, v)
             ELSE NodeToIndex(d, a[v + 1][1])
    ELSE IF \E v \in Vehicles(d) : idx \in Range(a[v + 1])
    THEN LET v == CHOOSE w \in Vehicles(d) : idx \in Range(a[w + 1])
             p == CHOOSE q \in 1..Len(a[v + 1]) : a[v + 1][q] = idx
         IN  IF p = Len(a[v + 1]) THEN EndIndex(d, v)
             ELSE NodeToIndex(d, a[v + 1][p + 1])
    ELSE idx

VehicleVar(d, a, idx) ==
    IF \E v \in Vehicles(d) : idx = StartIndex(d, v) \/ idx \in Range(a[v + 1])
    THEN CHOOSE v \in Vehicles(d) : idx = StartIndex(d, v) \/ idx \in Range(a[v + 1])
    ELSE -1

ConstraintHolds(d, a, c) ==
    CASE c.t = "NextEq" -> NextVar(d, a, c.a) = c.b
      [] c.t = "NextNe" -> NextVar(d, a, c.a) # c.b
      [] c.t = "VehEq" -> VehicleVar(d, a, c.a) = c.b

\* A node outside every disjunction must be visited; a disjunction with a
\* penalty >= 0 lets its node be skipped.
MayDrop(disj, idx) ==
    \E i \in 1..Len(disj) : disj[i].index = idx /\ disj[i].penalty >= 0

RECURSIVE PrefixSums(_, _)
PrefixSums(acc, s) ==
    IF Len(s) = 0 THEN {acc} ELSE {acc} \cup PrefixSums(acc + Head(s), Tail(s))

\* demand_callback and the "Capacity" dimension: slack 0, cumul 0 at the
\* start, the transit out of an index is the demand of its node.
DemandAtNode(d, from_node) ==
    IF ~InRange(from_node, Len(d.demands)) THEN 999999
    ELSE d.demands[from_node + 1]

demand_callback(d, from_index) == DemandAtNode(d, IndexToNode(d, from_index))

CapacityOk(d, a) ==
    \A v \in Vehicles(d) :
        LET stops == <<StartIndex(d, v)>> \o [i \in 1..Len(a[v + 1]) |->
                                                NodeToIndex(d, a[v + 1][i])]
            loads == PrefixSums(0, [i \in 1..Len(stops) |-> demand_callback(d, stops[i])])
        IN  \A x \in loads : 0 <= x /\ x <= d.vehicle_capacities[v + 1]

\* service_plus_travel_for_dimension_callback and the "MaxDuration"
\* dimension: slack 0, the start cumul free in [0, max].
DurationEntryExists(d, from_node, to_node) ==
    /\ from_node + 1 <= Len(d.duration_matrix)
    /\ to_node + 1 <= Len(d.duration_matrix[from_node + 1])

ServicePlusTravelAtNodes(d, from_node, to_node) ==
    IF ~(InRange(from_node, NumLocations(d)) /\ InRange(to_node, NumLocations(d)))
    THEN large_penalty_int
    ELSE d.service_times[from_node + 1] + d.duration_matrix[from_node + 1][to_node + 1]

service_plus_travel(d, from_index, to_index) ==
    ServicePlusTravelAtNodes(d, IndexToNode(d, from_index), IndexToNode(d, to_index))

SetMax(S) == CHOOSE x \in S : \A y \in S : y <= x
SetMin(S) == CHOOSE x \in S : \A y \in S : x <= y

DurationOk(d, a) ==
    IF IsNone(d.max_route_duration) THEN TRUE
    ELSE \A v \in Vehicles(d) :
        LET stops == <<StartIndex(d, v)>>
                        \o [i \in 1..Len(a[v + 1]) |-> NodeToIndex(d, a[v + 1][i])]
                        \o <<EndIndex(d, v)>>
            times == PrefixSums(0, [i \in 1..(Len(stops) - 1) |->
                                      service_plus_travel(d, stops[i], stops[i + 1])])
        IN  SetMax(times) - SetMin(times) <= Val(d.max_route_duration)

\* The duration callback indexes duration_matrix unguarded: an arc whose
\* entry is missing raises IndexError inside the engine's search.
DurationCallbackRaises(d) ==
    /\ ~IsNone(d.max_route_duration)
    /\ \E f \in Nodes(d), t \in Nodes(d) : ~DurationEntryExists(d, f, t)

Feasible(d, cons, disj, a) ==
    /\ \A c \in cons : ConstraintHolds(d, a, c)
    /\ \A n \in Customers(d) :
          VehicleVar(d, a, NodeToIndex(d, n)) # -1 \/ MayDrop(disj, NodeToIndex(d, n))
    /\ CapacityOk(d, a)
    /\ DurationOk(d, a)

FeasibleAssignments(d, cons, disj) ==
    {a \in AllAssignments(d) : Feasible(d, cons, disj, a)}

\* ------------------------------------------------------------ the decoder
\* Mutant of Walk: the depot is not filtered out of the walk.
RECURSIVE WalkKeepingDepot(_, _, _)
WalkKeepingDepot(d, a, index) ==
    IF IsEnd(d, index) THEN <<>>
    ELSE <<IndexToNode(d, index)>> \o WalkKeepingDepot(d, a, NextVar(d, a, index))

RECURSIVE Walk(_, _, _)
Walk(d, a, index) ==
    IF IsEnd(d, index) THEN <<>>
    ELSE (IF IndexToNode(d, index) # d.depot THEN <<IndexToNode(d, index)>> ELSE <<>>)
         \o Walk(d, a, NextVar(d, a, index))

RECURSIVE OutputRoutesFrom(_, _, _)
OutputRoutesFrom(d, a, vehicle_id) ==
    IF vehicle_id >= d.num_vehicles THEN <<>>
    ELSE LET route == Walk(d, a, StartIndex(d, vehicle_id))
         IN  (IF Len(route) > 0 THEN <<route>> ELSE <<>>)
             \o OutputRoutesFrom(d, a, vehicle_id + 1)

OutputRoutes(d, a) == OutputRoutesFrom(d, a, 0)

\* Mutant of InARoute: the membership test stops at the first route.
InARouteFirstOnly(routes, n) == Len(routes) > 0 /\ n \in Range(routes[1])

InARoute(routes, n) == \E r \in 1..Len(routes) : n \in Range(routes[r])

RECURSIVE NotRoutedFrom(_, _, _)
NotRoutedFrom(d, routes, n) ==
    IF n >= NumLocations(d) THEN <<>>
    ELSE (IF n # d.depot /\ ~InARoute(routes, n) THEN <<n>> ELSE <<>>)
         \o NotRoutedFrom(d, routes, n + 1)

\* Mutant of DroppedOnSuccess: every customer is listed, routed or not, and
\* whatever allow_dropping_visits says.
DroppedIgnoringRoutes(d, routes) == NotRoutedFrom(d, <<>>, 0)

DroppedOnSuccess(d, routes) ==
    IF d.allow_dropping_visits THEN NotRoutedFrom(d, routes, 0) ELSE <<>>

\* Mutant of DroppedOnNoSolution: the unserved customers are listed only when
\* dropping is allowed.
DroppedOnNoSolutionIfAllowed(d) ==
    IF d.allow_dropping_visits THEN NotRoutedFrom(d, <<>>, 0) ELSE <<>>

DroppedOnNoSolution(d) ==
    IF d.allow_dropping_visits \/ NumLocations(d) > 1
    THEN NotRoutedFrom(d, <<>>, 0) ELSE <<>>

NoSolution == [found |-> FALSE, routes |-> <<>>]
Found(a) == [found |-> TRUE, routes |-> a]

DecodedResult(d, sol) ==
    IF sol.found
    THEN [routes |-> OutputRoutes(d, sol.routes),
          dropped_node_indices |-> DroppedOnSuccess(d, OutputRoutes(d, sol.routes)),
          error |-> None]
    ELSE [routes |-> <<>>,
          dropped_node_indices |-> DroppedOnNoSolution(d),
          error |-> None]

ErrorResult(msg) == [routes |-> <<>>, dropped_node_indices |-> <<>>, error |-> Some(msg)]

\* Mutant of BasicCheck: only the empty matrix is caught.
BasicCheckEmptyOnly(d) ==
    IF NumLocations(d) = 0 THEN "Empty distance matrix in data model" ELSE "ok"

\* The early returns of solve_cvrptw, or "ok".
BasicCheck(d) ==
    IF NumLocations(d) = 0 THEN "Empty distance matrix in data model"
    ELSE IF d.num_vehicles = 0 /\ NumLocations(d) > 1
    THEN "num_vehicles is 0 with locations to visit"
    ELSE "ok"

\* RoutingIndexManager needs the depot among its nodes.
ManagerAborts(d) == ~InRange(d.depot, NumLocations(d))

\* ------------------------------------------------------------ the requests
Abs(x) == IF x < 0 THEN -x ELSE x
Opt(S) == {None} \cup {Some(x) : x \in S}

\* Locations on a line: the cost between nodes i and j is |i - j|.
LineMatrix(n) == [i \in 1..n |-> [j \in 1..n |-> Num(2 * Abs(i - j))]]

MkReq(n, v, dep, allow, fs, fe, oth, cap, md) ==
    [distance_matrix |-> LineMatrix(n),
     duration_matrix |-> None,
     demands |-> [i \in 1..n |-> IF i = (IF IsNone(dep) THEN 1 ELSE Val(dep) + 1)
                                  THEN 0 ELSE 1],
     vehicle_capacities |-> [i \in 1..v |-> cap],
     num_vehicles |-> v,
     depot_index |-> dep,
     max_route_duration |-> md,
     service_times |-> None,
     allow_dropping_visits |-> allow,
     drop_visit_penalty |-> None,
     trip_type |-> PICKUP,
     direction_penalty_weight |-> 2,
     fixed_start_node_index_in_matrix |-> fs,
     fixed_end_node_index_in_matrix |-> fe,
     other_customer_node_indices_in_matrix |-> oth]

OtherChoices(n) ==
    {None} \cup {Some(<<i>>) : i \in 0..(n - 1)}
           \cup {Some(<<i, j>>) : i \in 1..(n - 1), j \in 2..(n - 1)}

PinChoices(n) ==
    {[fs |-> fs, fe |-> None, oth |-> oth] :
        fs \in Opt(0..(n - 1)), oth \in {None, Some(<<n>>), Some(<<1>>)}}
    \cup {[fs |-> fs, fe |-> fe, oth |-> oth] :
        fs \in Opt(0..(n - 1)), fe \in {Some(x) : x \in 0..(n - 1)},
        oth \in OtherChoices(n)}

Base(n, v, allow) == MkReq(n, v, None, allow, None, None, None, 3, None)

DropLast(s) == SubSeq(s, 1, Len(s) - 1)

Faults(r, n) ==
    {[r EXCEPT !.distance_matrix[n] = DropLast(@)],
     [r EXCEPT !.distance_matrix[1][n] = StrEntry],
     [r EXCEPT !.distance_matrix[1][n] = NullEntry],
     [r EXCEPT !.duration_matrix = Some([LineMatrix(n) EXCEPT ![1][n] = StrEntry])],
     [r EXCEPT !.duration_matrix = Some(LineMatrix(n - 1)), !.max_route_duration = Some(6)],
     [r EXCEPT !.duration_matrix = Some(LineMatrix(n - 1))],
     [r EXCEPT !.duration_matrix = Some(LineMatrix(n + 1)), !.max_route_duration = Some(6)],
     [r EXCEPT !.demands = Append(@, 1)],
     [r EXCEPT !.service_times = Some([i \in 1..(n + 1) |-> 1])],
     [r EXCEPT !.service_times = Some([i \in 1..n |-> 3]), !.max_route_duration = Some(11)],
     [r EXCEPT !.vehicle_capacities = Append(@, 3)],
     [r EXCEPT !.fixed_start_node_index_in_matrix = Some(n)],
     [r EXCEPT !.fixed_start_node_index_in_matrix = Some(-1)],
     [r EXCEPT !.fixed_end_node_index_in_matrix = Some(n)],
     [r EXCEPT !.fixed_end_node_index_in_matrix = Some(n - 1),
               !.other_customer_node_indices_in_matrix = Some(<<0, n>>)],
     [r EXCEPT !.drop_visit_penalty = Some(7)],
     [r EXCEPT !.demands = [i \in 1..n |-> 2]]}

\* ------------------------------------------------------------- the process
VARIABLES pc, input, data, constraints, disjunctions, time_limit, solution,
          result, stdout, stderr, exit_code, arc_eval

vars == <<pc, input, data, constraints, disjunctions, time_limit, solution,
          result, stdout, stderr, exit_code, arc_eval>>

\* The object printed when stdin is empty: it has no "details" key.
NoInputObject ==
    [error |-> Some("No input data"), routes |-> <<>>, dropped_node_indices |-> <<>>]

\* error_response of the except blocks, for an exception of class type with
\* message msg; error is the text the block puts under "error".
ErrorObject(error, type, msg) ==
    [error |-> Some(error), details |-> PyRepr(type, msg),
     routes |-> <<>>, dropped_node_indices |-> <<>>]

\* What stderr holds: the JSON objects printed to it, and LogLines for every
\* unbroken run of one or more lines of print_debug, print_error and
\* traceback.print_exc.
LogLines == [log |-> "lines"]

Logged(s) == IF Len(s) > 0 /\ s[Len(s)] = LogLines THEN s ELSE Append(s, LogLines)

Blank ==
    /\ pc = "start"
    /\ data = None
    /\ constraints = {}
    /\ disjunctions = <<>>
    /\ time_limit = 0
    /\ solution = None
    /\ arc_eval = None
    /\ result = None
    /\ stdout = <<>>
    /\ stderr = <<>>
    /\ exit_code = None

Json(r) == [kind |-> "json", req |-> r]

\* Well-shaped requests over every pinning choice.
InitWellShaped ==
    \E n \in 1..MaxN, v \in 0..MaxV, dep \in {None, Some(1)}, allow \in BOOLEAN,
       cap \in {1, 3}, md \in {None, Some(6)} :
        \E pin \in PinChoices(n) :
            input = Json(MkReq(n, v, dep, allow, pin.fs, pin.fe, pin.oth, cap, md))

\* Requests with one field out of shape, out of range or unusual.
InitFaults ==
    \E n \in 1..MaxN, v \in 0..MaxV, allow \in BOOLEAN :
        \E r \in Faults(Base(n, v, allow), n) : input = Json(r)

\* Requests with an empty distance matrix.
InitEmptyMatrix ==
    \E v \in 0..MaxV, allow \in BOOLEAN, dem \in {<<>>, <<1>>}, fs \in {None, Some(0)} :
        input = Json([Base(0, v, allow) EXCEPT !.demands = dem,
                                               !.fixed_start_node_index_in_matrix = fs])

\* Input that json.loads rejects, with the message of its JSONDecodeError.
InitMalformed ==
    \E m \in {<<"Expecting value: line 1 column 1 (char 0)">>,
              <<"Expecting value: line 1 column 25 (char 24)">>,
              <<"Expecting ", "'", ",", "'", " delimiter: line 1 column 4 (char 3)">>,
              <<"Invalid ", "\\", "escape: line 1 column 2 (char 1)">>} :
        input = [kind |-> "malformed", decode_error |-> m]

Init ==
    /\ Blank
    /\ \/ input = [kind |-> "empty"]
       \/ InitMalformed
       \/ InitWellShaped
       \/ InitFaults
       \/ InitEmptyMatrix

\* The except blocks of __main__ that answer on both streams and exit 1.
FailBoth(error_response) ==
    /\ stderr' = Append(Logged(stderr), error_response)
    /\ stdout' = Append(stdout, error_response)
    /\ exit_code' = Some(1)
    /\ pc' = "exited"

\* sys.stdin.read(), the empty-input branch and json.loads.
ReadInput ==
    /\ pc = "start"
    /\ IF input.kind = "empty"
       THEN /\ stderr' = Append(Logged(stderr), NoInputObject)
            /\ exit_code' = Some(1)
            /\ pc' = "exited"
            /\ UNCHANGED stdout
       ELSE IF input.kind = "malformed"
       THEN FailBoth(ErrorObject("JSONDecodeError: " \o Text(input.decode_error),
                                 "JSONDecodeError", input.decode_error))
       ELSE /\ pc' = "parsed"
            /\ stderr' = Logged(stderr)
            /\ UNCHANGED <<stdout, exit_code>>
    /\ UNCHANGED <<arc_eval, input, data, constraints, disjunctions, time_limit, solution, result>>

CreateDataModel ==
    /\ pc = "parsed"
    /\ IF ValidationError(input.req) = "ok"
       THEN /\ data' = DataOf(input.req)
            /\ pc' = "modelled"
            /\ stderr' = Logged(stderr)
            /\ UNCHANGED <<stdout, exit_code>>
       ELSE /\ FailBoth(ErrorObject(ValidationError(input.req),
                                     ValidationErrorType(input.req),
                                     ValidationErrorArgs(input.req)))
            /\ UNCHANGED data
    /\ UNCHANGED <<arc_eval, input, constraints, disjunctions, time_limit, solution, result>>

\* solve_cvrptw up to the search call: the early returns, the manager, and
\* every registration.
BuildModel ==
    /\ pc = "modelled"
    /\ BasicCheck(data) = "ok"
    /\ ~ManagerAborts(data)
    /\ constraints' = PinConstraints(data)
    /\ disjunctions' = Disjunctions(data)
    /\ time_limit' = TimeLimit(data)
    /\ pc' = "registered"
    /\ stderr' = Logged(stderr)
    /\ UNCHANGED <<arc_eval, input, data, solution, result, stdout, exit_code>>

EarlyReturn ==
    /\ pc = "modelled"
    /\ BasicCheck(data) # "ok"
    /\ result' = Some(ErrorResult(BasicCheck(data)))
    /\ pc' = "solved"
    /\ stderr' = Logged(stderr)
    /\ UNCHANGED <<arc_eval, input, data, constraints, disjunctions, time_limit, solution,
                   stdout, exit_code>>

\* The engine's CHECK on the manager's arguments ends the process.
ManagerAbort ==
    /\ pc = "modelled"
    /\ BasicCheck(data) = "ok"
    /\ ManagerAborts(data)
    /\ pc' = "aborted"
    /\ exit_code' = Some(134)
    /\ stderr' = Logged(stderr)
    /\ UNCHANGED <<arc_eval, input, data, constraints, disjunctions, time_limit, solution,
                   result, stdout>>

\* routing.SolveWithParameters: any assignment the registrations admit, or none.
SearchFinds ==
    /\ pc = "registered"
    /\ data.num_vehicles > 0
    /\ ~DurationCallbackRaises(data)
    /\ \E a \in FeasibleAssignments(data, constraints, disjunctions) :
          solution' = Some(Found(a))
    /\ pc' = "searched"
    /\ stderr' = Logged(stderr)
    /\ UNCHANGED <<arc_eval, input, data, constraints, disjunctions, time_limit, result,
                   stdout, exit_code>>

SearchFails ==
    /\ pc = "registered"
    /\ ~DurationCallbackRaises(data)
    /\ solution' = Some(NoSolution)
    /\ pc' = "searched"
    /\ stderr' = Logged(stderr)
    /\ UNCHANGED <<arc_eval, input, data, constraints, disjunctions, time_limit, result,
                   stdout, exit_code>>

\* An exception inside a callback surfaces from the engine call and reaches
\* the last except block of __main__.
SearchRaises ==
    /\ pc = "registered"
    /\ data.num_vehicles > 0
    /\ DurationCallbackRaises(data)
    /\ FailBoth(ErrorObject("list index out of range", "IndexError",
                             <<"list index out of range">>))
    /\ UNCHANGED <<arc_eval, input, data, constraints, disjunctions, time_limit, solution, result>>

\* A model without vehicles is outside the engine's contract.
SearchAborts ==
    /\ pc = "registered"
    /\ data.num_vehicles = 0
    /\ pc' = "aborted"
    /\ exit_code' = Some(134)
    /\ stderr' = Logged(stderr)
    /\ UNCHANGED <<arc_eval, input, data, constraints, disjunctions, time_limit, solution,
                   result, stdout>>

Decode ==
    /\ pc = "searched"
    /\ result' = Some(DecodedResult(data, Val(solution)))
    /\ pc' = "solved"
    /\ stderr' = Logged(stderr)
    /\ UNCHANGED <<arc_eval, input, data, constraints, disjunctions, time_limit, solution,
                   stdout, exit_code>>

\* print(json.dumps(result)) and the normal end of the script.
Emit ==
    /\ pc = "solved"
    /\ stdout' = Append(stdout, Val(result))
    /\ exit_code' = Some(0)
    /\ pc' = "exited"
    /\ stderr' = Logged(stderr)
    /\ UNCHANGED <<arc_eval, input, data, constraints, disjunctions, time_limit, solution,
                   result>>

Next ==
    \/ ReadInput
    \/ CreateDataModel
    \/ BuildModel
    \/ EarlyReturn
    \/ ManagerAbort
    \/ SearchFinds
    \/ SearchFails
    \/ SearchRaises
    \/ SearchAborts
    \/ Decode
    \/ Emit

Spec == Init /\ [][Next]_vars

\* ------------------------------------------------- the arc cost on its own
\* Requests that vary what the cost callback reads: each node's distance to
\* the depot, the travel cost between the other nodes, the weight, the trip
\* type and the depot index.
CostMatrix(n, dd, t, dep) ==
    [i \in 1..n |-> [j \in 1..n |-> IF i = j THEN Num(0)
                                    ELSE IF j = dep + 1 THEN dd[i] ELSE t]]

CostReq(n, dd, t, dep, tt, wh) ==
    [MkReq(n, 1, Some(dep), FALSE, None, None, None, 3, None)
        EXCEPT !.distance_matrix = CostMatrix(n, dd, t, dep),
               !.trip_type = tt,
               !.direction_penalty_weight = wh]

\* PICKUP, pickup, Pickup, DROPOFF, dropoff, DropOff, Delivery, cafe with an
\* acute accent, strasse with a sharp s, y with diaeresis, pickup with a
\* dotless i (305) and dropoff with the ff ligature (64256).
TripTypes ==
    {PICKUP, <<112, 105, 99, 107, 117, 112>>, <<80, 105, 99, 107, 117, 112>>,
     DROPOFF, <<100, 114, 111, 112, 111, 102, 102>>, <<68, 114, 111, 112, 79, 102, 102>>,
     <<68, 101, 108, 105, 118, 101, 114, 121>>,
     <<99, 97, 102, 233>>, <<115, 116, 114, 97, 223, 101>>, <<255>>,
     <<112, 305, 99, 107, 117, 112>>, <<100, 114, 111, 112, 111, 64256>>}

InitCost ==
    /\ Blank
    /\ \E n \in 2..MaxN, dep \in 0..1, tt \in TripTypes, wh \in (-1)..MaxWeightH,
          t \in {Num(2), Num(4), NullEntry} :
          \E dd \in [1..n -> {Num(0), Num(2), Num(5)}] :
              input = Json(CostReq(n, dd, t, dep, tt, wh))

\* One call of the registered cost callback by the engine, on any pair of
\* manager indices.
EvalArcCost ==
    /\ pc = "registered"
    /\ \E from_index \in 0..(NumLocations(data) + 2 * data.num_vehicles - 2),
          to_index \in 0..(NumLocations(data) + 2 * data.num_vehicles - 2) :
          arc_eval' = Some([from |-> IndexToNode(data, from_index),
                            to |-> IndexToNode(data, to_index),
                            cost |-> ArcCost(data, from_index, to_index)])
    /\ pc' = "cost_evaluated"
    /\ UNCHANGED <<input, data, constraints, disjunctions, time_limit, solution,
                   result, stdout, stderr, exit_code>>

NextCost ==
    \/ ReadInput
    \/ CreateDataModel
    \/ BuildModel
    \/ EvalArcCost

CostSpec == InitCost /\ [][NextCost]_vars

\* ------------------------------------------------ the time limit on its own
\* Requests of every size up to MaxTimeN, across every threshold of the time
\* limit, without pinning and with either or both fixed indices.
MaxTimeN == 32

InitTime ==
    /\ Blank
    /\ \E n \in 1..MaxTimeN, fs \in {None, Some(1)}, fe \in {None, Some(1)} :
          input = Json(MkReq(n, 1, None, FALSE, fs, fe, None, 3, None))

NextTime ==
    \/ ReadInput
    \/ CreateDataModel
    \/ BuildModel

TimeSpec == InitTime /\ [][NextTime]_vars

\* ================================================================ claims
Returned == pc \in {"solved", "exited"} /\ ~IsNone(result)

\* The JSON objects on stderr, without the log lines around them.
IsObject(e) == e # LogLines
StderrObjects == SelectSeq(stderr, IsObject)
Searched == ~IsNone(solution)
FoundAssignment == Searched /\ Val(solution).found
NoAssignment == Searched /\ ~Val(solution).found

CountIn(s, n) == Cardinality({i \in 1..Len(s) : s[i] = n})
CountInRoutes(routes, n) == SeqSum([r \in 1..Len(routes) |-> CountIn(routes[r], n)])

\* Every customer is once in the routes or once in the dropped list.
Partitions(d, r) ==
    \A n \in Customers(d) :
        CountInRoutes(r.routes, n) + CountIn(r.dropped_node_indices, n) = 1

\* C1 as stated: whatever solve_cvrptw returns for a validated request
\* partitions the customers between the routes and dropped_node_indices.
C1_PartitionAlways == Returned => Partitions(data, Val(result))

\* C1 amended: every result of solve_cvrptw that carries no error field
\* partitions the customers: each is in exactly one route once, or in
\* dropped_node_indices once, never both and never neither.
C1_PartitionUnlessError ==
    (Returned /\ IsNone(Val(result).error)) => Partitions(data, Val(result))

C1_Witness ==
    /\ Returned
    /\ FoundAssignment
    /\ IsNone(Val(result).error)
    /\ Len(Val(result).routes) >= 1
    /\ Len(Val(result).dropped_node_indices) >= 1

\* C2: with allow_dropping_visits false and an assignment returned by the
\* engine, dropped_node_indices is empty.
C2_NoDropsWhenForbidden ==
    (Returned /\ FoundAssignment /\ ~data.allow_dropping_visits)
        => Val(result).dropped_node_indices = <<>>

C2_Witness ==
    /\ Returned
    /\ FoundAssignment
    /\ ~data.allow_dropping_visits
    /\ Len(Val(result).routes) >= 2

\* C3: when the engine returns no assignment, the result is a normal one:
\* no routes, every customer once in dropped_node_indices, no error field,
\* and the script prints it on stdout and ends with status 0.
C3_NoSolutionAllDropped ==
    (Returned /\ NoAssignment) =>
        /\ Val(result).routes = <<>>
        /\ IsNone(Val(result).error)
        /\ Range(Val(result).dropped_node_indices) = Customers(data)
        /\ Len(Val(result).dropped_node_indices) = Cardinality(Customers(data))
        /\ pc = "exited" =>
              (stdout = <<Val(result)>> /\ StderrObjects = <<>> /\ exit_code = Some(0))

C3_Witness ==
    /\ pc = "exited"
    /\ Returned
    /\ NoAssignment
    /\ ~data.allow_dropping_visits
    /\ Len(Val(result).dropped_node_indices) >= 2

FixedStartSet == ~IsNone(data.fixed_start_node_index_in_matrix)

\* C4 as stated: with fixed_start_index = s, every route of the result has s
\* as its first customer, for any number of vehicles.
C4_EveryRouteStartsAtFixed ==
    (Returned /\ FoundAssignment /\ FixedStartSet) =>
        \A r \in 1..Len(Val(result).routes) :
            Val(result).routes[r][1] = Val(data.fixed_start_node_index_in_matrix)

\* C4 amended: with fixed_start_index = s, the route of vehicle 0 (the first
\* route of the result) has s as its first customer; with num_vehicles = 1
\* that is every route of the result.
C4_FirstRouteStartsAtFixed ==
    (Returned /\ FoundAssignment /\ FixedStartSet) =>
        /\ Len(Val(result).routes) >= 1
        /\ Val(result).routes[1][1] = Val(data.fixed_start_node_index_in_matrix)
        /\ data.num_vehicles = 1 =>
              \A r \in 1..Len(Val(result).routes) :
                  Val(result).routes[r][1] = Val(data.fixed_start_node_index_in_matrix)

C4_Witness ==
    /\ Returned
    /\ FoundAssignment
    /\ FixedStartSet
    /\ data.num_vehicles = 1
    /\ Len(Val(result).routes) = 1
    /\ Len(Val(result).routes[1]) >= 2
    /\ Val(data.fixed_start_node_index_in_matrix) = 2

FixedEndOnly ==
    /\ ~IsNone(data.fixed_end_node_index_in_matrix)
    /\ IsNone(data.fixed_start_node_index_in_matrix)

LastOf(r) == r[Len(r)]

\* The route r has fixed_end_index as its last customer, and no node of
\* other_customer_indices is its last customer.
EndsAtFixedEnd(d, r) ==
    /\ LastOf(r) = Val(d.fixed_end_node_index_in_matrix)
    /\ \A o \in Range(OtherCustomers(d)) : LastOf(r) # o

\* An assignment that the capacity, the duration limit and the dropping
\* policy admit and in which vehicle 0 ends its route at fixed_end_index,
\* after every listed other customer.
AdmissibleEndingAtFixedEnd(d, disj, a) ==
    /\ Feasible(d, {}, disj, a)
    /\ Len(a[1]) > 0
    /\ LastOf(a[1]) = Val(d.fixed_end_node_index_in_matrix)
    /\ \A o \in Range(OtherCustomers(d)) : InRange(o, NumLocations(d)) => o \in Range(a[1])
    /\ \A v \in Vehicles(d) : v > 0 => Len(a[v + 1]) = 0

\* C5: with fixed_end_index = e set and fixed_start_index unset, for every
\* assignment the engine can return under the registered constraints, every
\* route of the produced result has e as its last customer and no node of
\* other_customer_indices is the last customer of a route.  The first
\* conjunct speaks of the assignments the registered model admits, the second
\* of the result the run produces.
C5_FixedEndLast ==
    /\ (pc = "registered" /\ FixedEndOnly /\ data.num_vehicles > 0
            /\ ~DurationCallbackRaises(data)) =>
          \A a \in FeasibleAssignments(data, constraints, disjunctions) :
              \A r \in 1..Len(OutputRoutes(data, a)) :
                  EndsAtFixedEnd(data, OutputRoutes(data, a)[r])
    /\ (Returned /\ FixedEndOnly /\ IsNone(Val(result).error)) =>
          \A r \in 1..Len(Val(result).routes) :
              EndsAtFixedEnd(data, Val(result).routes[r])

\* The search has run on a request of two customers with one as the fixed
\* end and the other listed before it, a route through both that ends at the
\* fixed end being admissible; the successor constraint on the fixed end was
\* registered and the result has been produced.
C5_Witness ==
    /\ Returned
    /\ FixedEndOnly
    /\ Searched
    /\ NumLocations(data) = 3
    /\ Val(data.fixed_end_node_index_in_matrix) # data.depot
    /\ \E o \in Range(OtherCustomers(data)) :
          /\ InRange(o, NumLocations(data))
          /\ o # data.depot
          /\ o # Val(data.fixed_end_node_index_in_matrix)
    /\ NextEq(NodeToIndex(data, Val(data.fixed_end_node_index_in_matrix)),
              depot_manager_idx(data)) \in constraints
    /\ \E a \in AllAssignments(data) : AdmissibleEndingAtFixedEnd(data, disjunctions, a)
    /\ \A r \in 1..Len(Val(result).routes) :
          EndsAtFixedEnd(data, Val(result).routes[r])

\* ------------------------------------------------------ arc cost claims
ArcEvaluated == ~IsNone(arc_eval)
DistToDepot(d, n) == d.distance_matrix[n + 1][d.depot + 1]
BaseCost(d, u, v) == d.distance_matrix[u + 1][v + 1]

\* C6: for a weight >= 0, a PICKUP arc to a node strictly farther from the
\* depot, and a DROPOFF arc to a node strictly closer to it, cost at least
\* CostMatrix[u][v].
C6_DirectionPenaltySign ==
    (ArcEvaluated /\ data.direction_penalty_weight >= 0) =>
        LET x == Val(arc_eval)
        IN  /\ (data.trip_type = PICKUP
                  /\ DistToDepot(data, x.to) > DistToDepot(data, x.from))
               => x.cost >= BaseCost(data, x.from, x.to)
            /\ (data.trip_type = DROPOFF
                  /\ DistToDepot(data, x.to) < DistToDepot(data, x.from))
               => x.cost >= BaseCost(data, x.from, x.to)

C6_Witness ==
    /\ ArcEvaluated
    /\ data.trip_type = PICKUP
    /\ data.direction_penalty_weight > 0
    /\ Val(arc_eval).from # data.depot
    /\ Val(arc_eval).to # data.depot
    /\ DistToDepot(data, Val(arc_eval).to) > DistToDepot(data, Val(arc_eval).from)
    /\ Val(arc_eval).cost > BaseCost(data, Val(arc_eval).from, Val(arc_eval).to)

\* The integer nearest to h/2, the even one of two equally near.
RefRound(h) ==
    CHOOSE r \in ((h \div 2) - 1)..((h \div 2) + 1) :
        /\ Abs(2 * r - h) <= 1
        /\ Abs(2 * r - h) = 1 => r % 2 = 0

Max0(x) == IF x > 0 THEN x ELSE 0

\* The reference definition as the claim states it: every trip type other
\* than PICKUP takes the DROPOFF branch.
RefArcCostElseDropoff(d, u, v) ==
    IF u = d.depot \/ v = d.depot \/ d.direction_penalty_weight <= 0
    THEN BaseCost(d, u, v)
    ELSE IF d.trip_type = PICKUP
    THEN RefRound(2 * BaseCost(d, u, v)
             + d.direction_penalty_weight * Max0(DistToDepot(d, v) - DistToDepot(d, u)))
    ELSE RefRound(2 * BaseCost(d, u, v)
             + d.direction_penalty_weight * Max0(DistToDepot(d, u) - DistToDepot(d, v)))

\* The reference definition with the DROPOFF branch for DROPOFF alone.
RefArcCostOnlyDropoff(d, u, v) ==
    IF u = d.depot \/ v = d.depot \/ d.direction_penalty_weight <= 0
    THEN BaseCost(d, u, v)
    ELSE IF d.trip_type = PICKUP
    THEN RefRound(2 * BaseCost(d, u, v)
             + d.direction_penalty_weight * Max0(DistToDepot(d, v) - DistToDepot(d, u)))
    ELSE IF d.trip_type = DROPOFF
    THEN RefRound(2 * BaseCost(d, u, v)
             + d.direction_penalty_weight * Max0(DistToDepot(d, u) - DistToDepot(d, v)))
    ELSE BaseCost(d, u, v)

\* C7 as stated: arc_cost(u, v) equals the reference definition in which any
\* trip type other than PICKUP is penalized as DROPOFF.
C7_ArcCostElseDropoff ==
    ArcEvaluated =>
        Val(arc_eval).cost = RefArcCostElseDropoff(data, Val(arc_eval).from, Val(arc_eval).to)

\* C7 amended: arc_cost(u, v) is CostMatrix[u][v] when u or v is the depot or
\* weight <= 0; otherwise CostMatrix[u][v] + weight * max(0, d_v - d_u) for
\* PICKUP, CostMatrix[u][v] + weight * max(0, d_u - d_v) for DROPOFF, rounded
\* to an integer, and CostMatrix[u][v] alone for any other trip type.
C7_ArcCostOnlyDropoff ==
    ArcEvaluated =>
        Val(arc_eval).cost = RefArcCostOnlyDropoff(data, Val(arc_eval).from, Val(arc_eval).to)

C7_Witness ==
    /\ ArcEvaluated
    /\ data.trip_type = <<68, 69, 76, 73, 86, 69, 82, 89>>
    /\ data.direction_penalty_weight > 0
    /\ Val(arc_eval).from # data.depot
    /\ Val(arc_eval).to # data.depot
    /\ DistToDepot(data, Val(arc_eval).to) < DistToDepot(data, Val(arc_eval).from)
    /\ Val(arc_eval).cost = BaseCost(data, Val(arc_eval).from, Val(arc_eval).to)

\* ------------------------------------------------ input and validation
InputFailure ==
    \/ input.kind \in {"empty", "malformed"}
    \/ input.kind = "json" /\ ValidationError(input.req) # "ok"

IsErrorObject(o) ==
    /\ ~IsNone(o.error)
    /\ o.routes = <<>>
    /\ o.dropped_node_indices = <<>>

\* C8: after any input or validation failure the process has written exactly
\* one error object (error field, empty routes, empty dropped_node_indices)
\* to stderr and the same to stdout, and has ended with a non-zero status.
C8_ErrorOnBothStreams ==
    (pc = "exited" /\ InputFailure) =>
        /\ Len(StderrObjects) = 1 /\ IsErrorObject(StderrObjects[1])
        /\ Len(stdout) = 1 /\ IsErrorObject(stdout[1])
        /\ ~IsNone(exit_code) /\ Val(exit_code) # 0

ValidCustomer(d, idx) == InRange(idx, NumLocations(d)) /\ idx # d.depot

\* C9: in every data model create_data_model returns, fixed_start_index,
\* fixed_end_index and every entry of other_customer_indices is a customer
\* index: inside [0, N) and not the depot (a request with any other value
\* was rejected).
C9_FixedIndicesAreCustomers ==
    pc = "modelled" =>
        /\ IsNone(data.fixed_start_node_index_in_matrix)
              \/ ValidCustomer(data, Val(data.fixed_start_node_index_in_matrix))
        /\ IsNone(data.fixed_end_node_index_in_matrix)
              \/ ValidCustomer(data, Val(data.fixed_end_node_index_in_matrix))
        /\ \A o \in Range(OtherCustomers(data)) : ValidCustomer(data, o)

IsSquare(m, n) == Len(m) = n /\ \A i \in 1..Len(m) : Len(m[i]) = n

\* C10: every data model create_data_model returns has a distance matrix and
\* a duration matrix that are square of size N, N demands, N service times
\* and, when V > 0, V vehicle capacities (a request without was rejected).
C10_ShapesHold ==
    pc = "modelled" =>
        /\ IsSquare(data.distance_matrix, NumLocations(data))
        /\ IsSquare(data.duration_matrix, NumLocations(data))
        /\ Len(data.demands) = NumLocations(data)
        /\ Len(data.service_times) = NumLocations(data)
        /\ data.num_vehicles > 0 => Len(data.vehicle_capacities) = data.num_vehicles

\* ---------------------------------------------------------------- C11
\* C11: in every success response the vehicle that serves each customer can
\* be recovered from the route entries: no other assignment the engine could
\* have returned for the same request, with a customer on another vehicle,
\* is decoded to the same routes.
C11_VehicleRecoverable ==
    (Returned /\ FoundAssignment) =>
        \A a \in FeasibleAssignments(data, constraints, disjunctions) :
            OutputRoutes(data, a) = Val(result).routes => a = Val(solution).routes

\* ---------------------------------------------------------------- C12
Validated == input.kind = "json" /\ ValidationError(input.req) = "ok"
PastBasicChecks == Validated /\ pc \notin {"start", "parsed", "modelled"}
NothingToSolve ==
    \/ NumLocations(data) = 0
    \/ data.num_vehicles = 0 /\ NumLocations(data) > 1

\* C12: a validated request with no vehicles and at least one customer, or
\* with an empty matrix, is answered with an error result whose routes and
\* dropped_node_indices are empty; nothing is registered, the engine is never
\* asked for a solution, and the process ends normally.
C12_EarlyErrorResult ==
    (PastBasicChecks /\ NothingToSolve) =>
        /\ pc \in {"solved", "exited"}
        /\ IsNone(solution)
        /\ constraints = {} /\ disjunctions = <<>>
        /\ ~IsNone(result)
        /\ Val(result).routes = <<>>
        /\ Val(result).dropped_node_indices = <<>>
        /\ ~IsNone(Val(result).error)
        /\ pc = "exited" => /\ exit_code = Some(0)
                            /\ stdout = <<Val(result)>>
                            /\ StderrObjects = <<>>

C12_Witness ==
    /\ PastBasicChecks
    /\ data.num_vehicles = 0 /\ NumLocations(data) > 1
    /\ pc = "exited"
    /\ Val(result).error = Some("num_vehicles is 0 with locations to visit")

\* ---------------------------------------------------------------- C13
Registrations(idx) == {i \in 1..Len(disjunctions) : disjunctions[i].index = idx}

RegisteredOnceWith(n, cost) ==
    /\ Cardinality(Registrations(NodeToIndex(data, n))) = 1
    /\ \A i \in Registrations(NodeToIndex(data, n)) : disjunctions[i].penalty = cost

IsFixedStartOrEnd(n) ==
    \/ data.fixed_start_node_index_in_matrix = Some(n)
    \/ data.fixed_end_node_index_in_matrix = Some(n)

ListedAsOther(n) == n \in Range(OtherCustomers(data))

\* C13 as stated: with allow_dropping_visits false nothing is registered as
\* skippable; with it true the depot is never registered and every other node
\* is registered exactly once, with skip cost 0 if it is the fixed start, the
\* fixed end or listed among the other customers, whichever of the three
\* fields are set, and with the drop penalty otherwise.
C13_ZeroCostWheneverListed ==
    pc = "registered" =>
        IF ~data.allow_dropping_visits THEN disjunctions = <<>>
        ELSE /\ Registrations(depot_manager_idx(data)) = {}
             /\ Len(disjunctions) = Cardinality(Customers(data))
             /\ \A n \in Customers(data) :
                   RegisteredOnceWith(n, IF IsFixedStartOrEnd(n) \/ ListedAsOther(n)
                                         THEN 0 ELSE data.drop_visit_penalty)

\* C13 amended: the same registration, where a node listed among the other
\* customers has skip cost 0 only when the fixed end is set; listed without a
\* fixed end it has the drop penalty, unless it is the fixed start.
C13_ZeroCostIfListedWithFixedEnd ==
    pc = "registered" =>
        IF ~data.allow_dropping_visits THEN disjunctions = <<>>
        ELSE /\ Registrations(depot_manager_idx(data)) = {}
             /\ Len(disjunctions) = Cardinality(Customers(data))
             /\ \A n \in Customers(data) :
                   RegisteredOnceWith(n,
                       IF \/ IsFixedStartOrEnd(n)
                          \/ ~IsNone(data.fixed_end_node_index_in_matrix) /\ ListedAsOther(n)
                       THEN 0 ELSE data.drop_visit_penalty)

C13_Witness ==
    /\ pc = "registered"
    /\ data.allow_dropping_visits
    /\ ~IsNone(data.fixed_end_node_index_in_matrix)
    /\ \E n \in Customers(data) :
          /\ ~IsFixedStartOrEnd(n)
          /\ ListedAsOther(n)
          /\ RegisteredOnceWith(n, 0)
    /\ \E n \in Customers(data) :
          /\ data.fixed_end_node_index_in_matrix = Some(n)
          /\ RegisteredOnceWith(n, 0)

\* ---------------------------------------------------------------- C14
ZeroCostNodes ==
    {n \in Customers(data) :
        \E i \in Registrations(NodeToIndex(data, n)) : disjunctions[i].penalty = 0}

PinnedToVehicleZero(n) == VehEq(NodeToIndex(data, n), vehicle_id_for_reopt) \in constraints

MandatoryAllPinned ==
    (pc = "registered" /\ data.allow_dropping_visits) =>
        \A n \in ZeroCostNodes : PinnedToVehicleZero(n)

MandatoryNeverDropped ==
    (Returned /\ FoundAssignment /\ data.allow_dropping_visits) =>
        \A n \in ZeroCostNodes : n \notin Range(Val(result).dropped_node_indices)

\* C14: with allow_dropping_visits true, every node registered with skip cost
\* 0 also has a pinning constraint putting it on vehicle 0, and no such node
\* is among the dropped_node_indices of an assignment the engine returns, for
\* every validated request, fixed start and fixed end supplied together
\* included.
C14_MandatoryPinnedAndKept == MandatoryAllPinned /\ MandatoryNeverDropped

\* ---------------------------------------------------------------- C15
Pinned(d) ==
    ~IsNone(d.fixed_start_node_index_in_matrix) \/ ~IsNone(d.fixed_end_node_index_in_matrix)

\* The same data model cut down to its first m locations.
Shrunk(d, m) ==
    [d EXCEPT !.distance_matrix = [i \in 1..m |-> SubSeq(d.distance_matrix[i], 1, m)]]

WithPins(d, fs, fe) ==
    [d EXCEPT !.fixed_start_node_index_in_matrix = fs,
              !.fixed_end_node_index_in_matrix = fe]

\* C15: the time limit set for the search is positive and at most 120; it is
\* no smaller than the limit of any smaller model with the same pinning; it
\* depends on the fixed indices only through whether one is set; and when one
\* is set it is at most 10 and at most the limit of the same model unpinned.
C15_TimeBudget ==
    pc = "registered" =>
        /\ time_limit > 0
        /\ time_limit <= 120
        /\ \A m \in 1..NumLocations(data) : TimeLimit(Shrunk(data, m)) <= time_limit
        /\ \A fs \in {None, Some(0), Some(1)}, fe \in {None, Some(0), Some(1)} :
              Pinned(WithPins(data, fs, fe)) = Pinned(data)
                  => TimeLimit(WithPins(data, fs, fe)) = time_limit
        /\ Pinned(data) =>
              /\ time_limit <= reopt_time_limit
              /\ time_limit <= TimeLimit(WithPins(data, None, None))

C15_Witness ==
    /\ pc = "registered"
    /\ Pinned(data)
    /\ NumLocations(data) > 30
    /\ time_limit = 10
    /\ TimeLimit(WithPins(data, None, None)) = 120

\* ---------------------------------------------------------------- C16
\* The vehicles that serve a customer in the engine's assignment.
UsedVehicles == {v \in Vehicles(data) : Len(Val(solution).routes[v + 1]) > 0}

\* The r-th of them in increasing order.
UsedVehicle(r) ==
    CHOOSE v \in UsedVehicles : Cardinality({w \in UsedVehicles : w <= v}) = r

\* C16: after decoding an assignment, the routes are those of the vehicles
\* that serve a customer, in increasing vehicle order, each the customers on
\* that vehicle's chain in visiting order; the depot is in no route and no
\* route is empty.
C16_DecoderWalk ==
    (Returned /\ FoundAssignment) =>
        /\ Len(Val(result).routes) = Cardinality(UsedVehicles)
        /\ \A r \in 1..Len(Val(result).routes) :
              /\ Val(result).routes[r] = Val(solution).routes[UsedVehicle(r) + 1]
              /\ data.depot \notin Range(Val(result).routes[r])
              /\ Len(Val(result).routes[r]) > 0

C16_Witness ==
    /\ Returned /\ FoundAssignment
    /\ data.num_vehicles = 2
    /\ Len(Val(solution).routes[1]) = 0
    /\ Len(Val(solution).routes[2]) = 2
    /\ Val(result).routes = <<Val(solution).routes[2]>>

\* ---------------------------------------------------------------- C17
ManagerIndices(d) == 0..(NumLocations(d) + 2 * d.num_vehicles - 2)

\* The demand callback answers on every manager index with the demand of its
\* node, and on a node past the demands with the large penalty.
DemandCallbackTotal ==
    (pc = "registered" /\ data.num_vehicles > 0) =>
        /\ \A idx \in ManagerIndices(data) :
              /\ InRange(IndexToNode(data, idx), Len(data.demands))
              /\ demand_callback(data, idx) = data.demands[IndexToNode(data, idx) + 1]
        /\ DemandAtNode(data, Len(data.demands)) = large_penalty_int

\* The duration callback, when registered, finds its matrix entry on every
\* pair of manager indices and answers service time plus duration, and on a
\* node past the locations it answers the large penalty.
DurationCallbackTotal ==
    (pc = "registered" /\ data.num_vehicles > 0 /\ ~IsNone(data.max_route_duration)) =>
        /\ \A f \in ManagerIndices(data), t \in ManagerIndices(data) :
              /\ DurationEntryExists(data, IndexToNode(data, f), IndexToNode(data, t))
              /\ service_plus_travel(data, f, t)
                    = data.service_times[IndexToNode(data, f) + 1]
                      + data.duration_matrix[IndexToNode(data, f) + 1][IndexToNode(data, t) + 1]
        /\ ServicePlusTravelAtNodes(data, NumLocations(data), data.depot) = large_penalty_int

\* C17: for every data model the validator accepts, neither consumption
\* callback raises on an index of the engine; each returns 999999999 for a
\* node out of range, and otherwise the node's demand, respectively the
\* service time of the source plus the duration of the arc.
C17_CallbacksTotal == DemandCallbackTotal /\ DurationCallbackTotal

\* ---------------------------------------------------------------- C18
\* The running totals of the customers' demands along each vehicle's route
\* stay between 0 and the vehicle's capacity.
CustomerLoadsOk(d, a) ==
    \A v \in Vehicles(d) :
        \A x \in PrefixSums(0, [i \in 1..Len(a[v + 1]) |-> d.demands[a[v + 1][i] + 1]]) :
            0 <= x /\ x <= d.vehicle_capacities[v + 1]

WithDepotDemand(d, q) == [d EXCEPT !.demands[d.depot + 1] = q]

\* C18: for every validated request the depot consumes no capacity: an
\* assignment satisfies the Capacity dimension exactly when the running
\* totals of the customers' demands on each route stay between 0 and the
\* vehicle's capacity, and the depot's demand entry does not change which
\* assignments satisfy it.
C18_DepotConsumesNothing ==
    (pc = "registered" /\ data.num_vehicles > 0) =>
        \A a \in AllAssignments(data) :
            /\ CapacityOk(data, a) <=> CustomerLoadsOk(data, a)
            /\ CapacityOk(data, a) <=> CapacityOk(WithDepotDemand(data, 0), a)

====
